---- MODULE Spec2Model ----
(***************************************************************************)
(* Verification model of vyreee/leadgraph: the enrichment phase of the     *)
(* pipeline orchestrator (bounded batches of enrichment units) and the     *)
(* tiered website crawler (direct fetch, then headless browser).           *)
(***************************************************************************)
EXTENDS Integers, Sequences, FiniteSets, TLC

\* ------------------------------------------------------------------ bounds
MaxLeads == 3
MaxToks == 2
MaxCrawls == 1
MaxLines == 2
MaxProbes == 2
MaxRecords == 3
MaxTime == 3000
MaxRunLeads == 2

VARIABLES
  \* enrichment phase (main.js, "if (input.enrichment?.crawlWebsite)")
  numLeads,        \* leadsToEnrich.length
  i,               \* loop index of the batch loop
  ctrl,            \* position of the batch loop
  unit,            \* per lead: position and record of its enrichment task
  enrichedCount,   \* let enrichedCount
  sinceSettled,    \* ms elapsed in the pause since the last batch settled
  \* crawlWebsite / crawlWithPlaywright, one target
  cwPc,            \* position inside crawlWebsite / crawlWithPlaywright
  websiteUrl,      \* argument of crawlWebsite
  simpleResult,    \* value returned by simpleFetch
  crawledPages,    \* crawledPages of the tier that is running
  allHtml,         \* allHtml of the tier that is running
  browserOpen,     \* a browser launched by chromium.launch is not closed
  pageError,       \* the step whose error catch (pageError) caught
  fetchCalls,      \* number of simpleFetch invocations
  playwrightCalls, \* number of crawlWithPlaywright invocations
  pwReturned,      \* value crawlWithPlaywright returned
  result,          \* value crawlWebsite returned
  \* Crawl4AIClient
  available,       \* this.available
  probe,           \* per checkAvailability call: position, output, exit code
  crawl,           \* per crawlUrl call: position, process, output, promise, timer
  \* AI outreach generation loop (main.js, "if (input.ai?.enabled)")
  numRecords,      \* mergedLeads.length
  apiKey,          \* an OpenAI API key is configured
  genPc,           \* position of the generation loop
  genI,            \* loop index of the generation loop
  now,             \* wall clock, ms
  delayUntil,      \* when the pending setTimeout(resolve, 1000) is due
  calls,           \* generateOutreach calls so far: record and time of call
  results,         \* what generateOutreach returned, per finished call
  httpCalls,       \* requests sent to the completions endpoint
  keyWarnings,     \* 'OpenAI API key not provided' warnings logged
  aiCount,         \* let aiCount
  \* the run as a whole (main.js)
  runPc,           \* position in the top-level try block
  enrichOn,        \* input.enrichment?.crawlWebsite
  rawCount,        \* rawLeads.length
  runLeads,        \* mergedLeads
  runI,            \* number of leads the enrichment phase is done with
  crawlsEmpty,     \* crawlWebsite calls of the run that returned no content
  crawlsContent,   \* crawlWebsite calls of the run that returned content
  dataset,         \* records given to Actor.pushData
  summaryWrites,   \* calls of Actor.setValue('RUN_SUMMARY', ...)
  summary,         \* the value stored under RUN_SUMMARY
  runOutcome,      \* how the script ended: normally, or with the error rethrown
  \* one simpleFetch invocation
  sfImpl,          \* which simpleFetch: simpleFetch.js or the crawl4aiClient.js fallback
  sfPc,            \* position: awaiting fetch (headers), awaiting response.text() (body)
  sfTimer,         \* the timeout: none, armed, cleared, fired
  sfRequests,      \* number of fetch() calls
  sfAborted,       \* the request was aborted through its signal
  sfEvent,         \* what ended the retrieval
  sfBody,          \* the body the endpoint delivered
  sfResult,        \* value simpleFetch returned
  \* one parseOutreachResponse call
  poContent,       \* content: the generation service's answer
  poOutreach       \* the outreach returned

enrichVars == <<numLeads, i, ctrl, unit, enrichedCount, sinceSettled>>
crawlVars == <<cwPc, websiteUrl, simpleResult, crawledPages, allHtml,
               browserOpen, pageError, fetchCalls, playwrightCalls, pwReturned, result>>
clientVars == <<available, probe, crawl>>
vars == <<numLeads, i, ctrl, unit, enrichedCount, sinceSettled,
          cwPc, websiteUrl, simpleResult, crawledPages, allHtml,
          browserOpen, pageError, fetchCalls, playwrightCalls, pwReturned, result,
          available, probe, crawl,
          numRecords, apiKey, genPc, genI, now, delayUntil, calls, results,
          httpCalls, keyWarnings, aiCount,
          runPc, enrichOn, rawCount, runLeads, runI, crawlsEmpty, crawlsContent,
          dataset, summaryWrites, summary, runOutcome,
          sfImpl, sfPc, sfTimer, sfRequests, sfAborted, sfEvent, sfBody, sfResult,
          poContent, poOutreach>>
parseVars == <<poContent, poOutreach>>
sfVars == <<sfImpl, sfPc, sfTimer, sfRequests, sfAborted, sfEvent, sfBody, sfResult>>
runVars == <<runPc, enrichOn, rawCount, runLeads, runI, crawlsEmpty, crawlsContent,
             dataset, summaryWrites, summary, runOutcome>>
genVars == <<numRecords, apiKey, genPc, genI, now, delayUntil, calls, results,
             httpCalls, keyWarnings, aiCount>>

\* what the actions of one part of the program leave alone
nonEnrichVars == <<crawlVars, clientVars, genVars, runVars, sfVars, parseVars>>
nonCrawlVars == <<enrichVars, clientVars, genVars, runVars, sfVars, parseVars>>
nonClientVars == <<enrichVars, crawlVars, genVars, runVars, sfVars, parseVars>>
nonGenVars == <<enrichVars, crawlVars, clientVars, runVars, sfVars, parseVars>>
nonRunVars == <<enrichVars, crawlVars, clientVars, genVars, sfVars, parseVars>>
nonSfVars == <<enrichVars, crawlVars, clientVars, genVars, runVars, parseVars>>
nonParseVars == <<enrichVars, crawlVars, clientVars, genVars, runVars, sfVars>>

(***************************************************************************)
(* Enrichment phase                                                        *)
(***************************************************************************)
batchSizeOversized == 2 + 1
batchSize == 2

Leads == 1..numLeads

\* batch = leadsToEnrich.slice(i, i + batchSize), as 1-based lead numbers
Batch(k) == { u \in Leads : k < u /\ u <= k + batchSize }

\* number of the batch a lead belongs to
BatchOf(u) == (u - 1) \div batchSize

\* the sub-objects of a lead the merge writes into; a lead that lacks one
\* makes the corresponding statement raise a TypeError
LeadShapes == SUBSET {"emails", "phones", "signals"}

NoFields == {}
SiteFields == {"socials", "websiteSignals", "techSignals"}

\* fields a complete merge of the extracted signals writes
WantedFields(e, p) ==
  (IF e THEN {"emails"} ELSE {}) \cup (IF p THEN {"phones"} ELSE {}) \cup SiteFields

\* the statements of the merge in program order; each either writes its
\* field or throws and leaves the later ones undone
MergeSignals(shape, e, p) ==
  LET s1 == IF e /\ "emails" \notin shape
              THEN [updated |-> NoFields, threw |-> TRUE]
              ELSE [updated |-> IF e THEN {"emails"} ELSE NoFields, threw |-> FALSE]
      s2 == IF s1.threw THEN s1
            ELSE IF p /\ "phones" \notin shape
              THEN [updated |-> s1.updated, threw |-> TRUE]
              ELSE [updated |-> s1.updated \cup (IF p THEN {"phones"} ELSE {}),
                    threw |-> FALSE]
      s3 == IF s2.threw THEN s2
            ELSE [updated |-> s2.updated \cup {"socials"}, threw |-> FALSE]
      s4 == IF s3.threw THEN s3
            ELSE IF "signals" \notin shape
              THEN [updated |-> s3.updated, threw |-> TRUE]
              ELSE [updated |-> s3.updated \cup {"websiteSignals", "techSignals"},
                    threw |-> FALSE]
  IN s4

\* body of the unit callback after crawlWebsite returned
\*   hasContent    crawlResult.htmlContent is non-empty
\*   extractThrows one of the extractors raises
\*   e, p, s       emails / phones / some social link were extracted
UnitTask(shape, hasContent, extractThrows, e, p, s) ==
  IF ~hasContent
    THEN [updated |-> NoFields, wanted |-> NoFields, threw |-> FALSE, counted |-> FALSE]
  ELSE IF extractThrows
    THEN [updated |-> NoFields, wanted |-> NoFields, threw |-> TRUE, counted |-> FALSE]
  ELSE LET m == MergeSignals(shape, e, p)
       IN [updated |-> m.updated, wanted |-> WantedFields(e, p), threw |-> m.threw,
           counted |-> ~m.threw /\ (e \/ p \/ s)]

\* the catch clause of the unit callback: the promise of a unit that threw
UnitSettleRethrows(threw) == IF threw THEN "rejected" ELSE "done"
UnitSettle(threw) == "done"

\* await Promise.all(batch.map(...)): settles once every promise is
\* fulfilled, or as soon as one is rejected
PromiseAllSettlesOnFirst(k) ==
  \/ \E u \in Batch(k) : unit[u].pc = "rejected"
  \/ \E u \in Batch(k) : unit[u].pc = "done"
PromiseAllSettles(k) ==
  \/ \E u \in Batch(k) : unit[u].pc = "rejected"
  \/ \A u \in Batch(k) : unit[u].pc = "done"

\* setTimeout(resolve, 500)
PacingDelayMs == 500

\* amounts by which the time in a pause is seen to advance
PaceSteps == {250, 500}

\* if (i + batchSize < leadsToEnrich.length): another batch follows
NeedsPacingNever(k, n) == FALSE
NeedsPacing(k, n) == k + batchSize < n

PendingUnit == [pc |-> "pending", updated |-> NoFields, wanted |-> NoFields, failed |-> FALSE]

\* for (let i = 0; i < leadsToEnrich.length; ...): batch.map starts every
\* unit of the batch up to its first await
StartBatch ==
  /\ ctrl = "loop"
  /\ i < numLeads
  /\ unit' = [u \in Leads |-> IF u \in Batch(i) THEN [unit[u] EXCEPT !.pc = "crawling"]
                                                ELSE unit[u]]
  /\ ctrl' = "awaitAll"
  /\ sinceSettled' = 0
  /\ UNCHANGED <<numLeads, i, enrichedCount>>
  /\ UNCHANGED nonEnrichVars

\* crawlWebsite returned to unit u; extraction, merge and catch run to the end
UnitFinish(u) ==
  /\ unit[u].pc = "crawling"
  /\ ctrl # "aborted"
  /\ \E shape \in LeadShapes, hasContent \in BOOLEAN, extractThrows \in BOOLEAN,
        e \in BOOLEAN, p \in BOOLEAN, s \in BOOLEAN :
       LET t == UnitTask(shape, hasContent, extractThrows, e, p, s)
       IN /\ unit' = [unit EXCEPT ![u] = [pc |-> UnitSettle(t.threw),
                                          updated |-> t.updated,
                                          wanted |-> t.wanted,
                                          failed |-> t.threw]]
          /\ enrichedCount' = IF t.counted THEN enrichedCount + 1 ELSE enrichedCount
  /\ UNCHANGED <<numLeads, i, ctrl, sinceSettled>>
  /\ UNCHANGED nonEnrichVars

\* Promise.all settled: a rejection leaves the loop through the top-level
\* catch (Actor.exit), otherwise pace or go on
BatchSettled ==
  /\ ctrl = "awaitAll"
  /\ PromiseAllSettles(i)
  /\ IF \E u \in Batch(i) : unit[u].pc = "rejected"
       THEN /\ ctrl' = "aborted"
            /\ i' = i
       ELSE IF NeedsPacing(i, numLeads)
         THEN /\ ctrl' = "delay"
              /\ i' = i
         ELSE /\ ctrl' = "loop"
              /\ i' = i + batchSize
  /\ sinceSettled' = 0
  /\ UNCHANGED <<numLeads, unit, enrichedCount>>
  /\ UNCHANGED nonEnrichVars

\* setTimeout(resolve, 500) fired
DelayElapsed ==
  /\ ctrl = "delay"
  /\ sinceSettled >= PacingDelayMs
  /\ ctrl' = "loop"
  /\ i' = i + batchSize
  /\ UNCHANGED <<numLeads, unit, enrichedCount, sinceSettled>>
  /\ UNCHANGED nonEnrichVars

\* time passes while the controller waits for the timer
PaceTick ==
  /\ ctrl = "delay"
  /\ \E d \in PaceSteps :
       /\ sinceSettled + d <= MaxTime
       /\ sinceSettled' = sinceSettled + d
  /\ UNCHANGED <<numLeads, i, ctrl, unit, enrichedCount>>
  /\ UNCHANGED nonEnrichVars

\* loop condition false
EnrichmentComplete ==
  /\ ctrl = "loop"
  /\ i >= numLeads
  /\ ctrl' = "done"
  /\ UNCHANGED <<numLeads, i, unit, enrichedCount, sinceSettled>>
  /\ UNCHANGED nonEnrichVars

(***************************************************************************)
(* Website crawler: crawlWebsite and crawlWithPlaywright                   *)
(***************************************************************************)
\* strings the code searches for
BlockMarkers == {"403 Forbidden", "Access Denied", "captcha", "Cloudflare"}
Keywords == {"contact", "form", "submit", "book", "appointment", "schedule",
             "chat", "intercom", "drift"}

\* an occurrence of a searched string in a page: in its text, or only
\* inside a tag (attribute value, tag name)
Occurrences == (BlockMarkers \X {"text"}) \cup (Keywords \X {"text", "tag"})

RECURSIVE SubsetsUpTo(_, _)
SubsetsUpTo(S, k) ==
  IF k = 0 THEN {{}}
  ELSE LET prev == SubsetsUpTo(S, k - 1)
       IN prev \cup { x \cup {o} : x \in prev, o \in S }

\* lengths of the markup the remote site may send
Lens == {0, 999, 1000, 3000, 4999, 5000, 8000}

\* a string is its length and the searched strings it contains
EmptyStr == [len |-> 0, toks |-> {}]

\* markup served to the direct fetch
Htmls ==
  { [len |-> l, occ |-> o, hasText |-> t] :
      l \in Lens, o \in SubsetsUpTo(Occurrences, MaxToks), t \in BOOLEAN }

WellFormedHtml(h) ==
  /\ h.len = 0 => h.occ = {} /\ ~h.hasText
  /\ (\E o \in h.occ : o[2] = "text") => h.hasText

\* the markup as a string: everything that occurs, wherever it occurs
Markup(h) == [len |-> h.len, toks |-> { o[1] : o \in h.occ }]

\* html.replace(/<[^>]*>/g, ' ').replace(/\s+/g, ' ').trim(): what occurs
\* only inside tags is gone, and the text is shorter than the markup
StripTags(h) ==
  [len |-> IF h.hasText THEN (h.len + 1) \div 2 ELSE 0,
   toks |-> { o[1] : o \in { x \in h.occ : x[2] = "text" } }]

\* outcomes of simpleFetch(startUrl, 10000)
FetchErrors == {"timeout", "network", "http status"}
FetchFailure(reason) == [success |-> FALSE, error |-> reason]
FetchSuccess(h) == [success |-> TRUE, html |-> Markup(h), text |-> StripTags(h)]

\* markup the browser tier may capture with page.content()
BrowserHtmls ==
  { EmptyStr, [len |-> 8000, toks |-> {}], [len |-> 8000, toks |-> {"contact", "form"}],
    [len |-> 3000, toks |-> {"Access Denied"}], [len |-> 8000, toks |-> {"book", "schedule", "chat"}] }

Urls == {"", "example.com", "https://example.com", "bad host"}

\* websiteUrl.startsWith('http') ? websiteUrl : `https://${websiteUrl}`
StartUrl(u) ==
  CASE u = "example.com" -> "https://example.com"
    [] u = "bad host" -> "https://bad host"
    [] OTHER -> u

\* new URL(startUrl) does not throw
UrlParses(u) == u = "https://example.com"

EmptyMeta == [k \in {} |-> FALSE]
EmptyResult == [pages |-> <<>>, metadata |-> EmptyMeta, htmlContent |-> EmptyStr]
Null == [null |-> TRUE]

\* buildCrawlResult(crawledPages, allHtml, domain)
buildCrawlResult(pages, html) ==
  [pages |-> pages,
   metadata |->
     [pageCount |-> Len(pages),
      hasContactForm |-> "contact" \in html.toks
                           /\ ("form" \in html.toks \/ "submit" \in html.toks),
      hasBookingWidget |-> "book" \in html.toks
                             /\ ("appointment" \in html.toks \/ "schedule" \in html.toks),
      hasChatWidget |-> "chat" \in html.toks \/ "intercom" \in html.toks
                          \/ "drift" \in html.toks],
   htmlContent |-> html]

\* const isBlocked = ...
isBlockedOffByOne(html) == html.toks \cap BlockMarkers # {} \/ html.len <= 5000
isBlockedNoEdgeProxy(html) ==
  html.toks \cap (BlockMarkers \ {"Cloudflare"}) # {} \/ html.len < 5000
isBlocked(html) == html.toks \cap BlockMarkers # {} \/ html.len < 5000

\* simpleResult.success && simpleResult.html && simpleResult.html.length > 1000
GoodContentAnyLength(sr) == sr.success /\ sr.html.len > 0
GoodContent(sr) == sr.success /\ sr.html.len > 0 /\ sr.html.len > 1000

\* the direct tier's result is returned
AcceptDirectNoSizeCheck(sr) ==
  GoodContentAnyLength(sr) /\ sr.html.toks \cap BlockMarkers = {}
AcceptDirectNever(sr) == FALSE
AcceptDirect(sr) == GoodContent(sr) /\ ~isBlocked(sr.html)

\* end of crawlWithPlaywright: if (crawledPages.length > 0) ... else ...
PlaywrightReturnAlwaysBuilds(pages, html) == buildCrawlResult(pages, html)
PlaywrightReturnDropsPages(pages, html) == EmptyResult
PlaywrightReturn(pages, html) ==
  IF Len(pages) > 0 THEN buildCrawlResult(pages, html) ELSE EmptyResult

\* an exception that leaves a function instead of a returned value
Raised == [raised |-> TRUE]

\* catch (error) of crawlWebsite: what the caller gets when the try block threw
CrawlWebsiteCatchRethrows == Raised
CrawlWebsiteCatch == EmptyResult

\* crawlWebsite up to the call of simpleFetch
CrawlStart ==
  /\ cwPc = "start"
  /\ IF websiteUrl = ""
       THEN /\ result' = EmptyResult
            /\ cwPc' = "done"
            /\ UNCHANGED fetchCalls
       ELSE IF ~UrlParses(StartUrl(websiteUrl))
         THEN /\ result' = CrawlWebsiteCatch
              /\ cwPc' = "done"
              /\ UNCHANGED fetchCalls
         ELSE /\ fetchCalls' = fetchCalls + 1
              /\ cwPc' = "fetch"
              /\ UNCHANGED result
  /\ UNCHANGED <<websiteUrl, simpleResult, crawledPages, allHtml, browserOpen,
                 pageError, playwrightCalls, pwReturned>>
  /\ UNCHANGED nonCrawlVars

\* simpleFetch returned: accept its content or call crawlWithPlaywright
FetchReturn ==
  /\ cwPc = "fetch"
  /\ \E sr \in { FetchFailure(r) : r \in FetchErrors }
               \cup { FetchSuccess(h) : h \in { x \in Htmls : WellFormedHtml(x) } } :
       /\ simpleResult' = sr
       /\ IF AcceptDirect(sr)
            THEN /\ crawledPages' = << [url |-> StartUrl(websiteUrl), html |-> sr.html] >>
                 /\ allHtml' = sr.text
                 /\ result' = buildCrawlResult(crawledPages', allHtml')
                 /\ cwPc' = "done"
                 /\ UNCHANGED playwrightCalls
            ELSE /\ playwrightCalls' = playwrightCalls + 1
                 /\ crawledPages' = <<>>
                 /\ allHtml' = EmptyStr
                 /\ cwPc' = "launch"
                 /\ UNCHANGED result
  /\ UNCHANGED <<websiteUrl, browserOpen, pageError, fetchCalls, pwReturned>>
  /\ UNCHANGED nonCrawlVars

\* an error outside the inner try: catch (error) of crawlWithPlaywright,
\* whose value crawlWebsite returns
PlaywrightOuterCatch ==
  /\ pwReturned' = EmptyResult
  /\ result' = EmptyResult
  /\ cwPc' = "done"

\* chromium.launch
Launch ==
  /\ cwPc = "launch"
  /\ \E ok \in BOOLEAN :
       IF ok THEN /\ browserOpen' = TRUE
                  /\ cwPc' = "context"
                  /\ UNCHANGED <<pwReturned, result>>
             ELSE /\ PlaywrightOuterCatch
                  /\ UNCHANGED browserOpen
  /\ UNCHANGED <<websiteUrl, simpleResult, crawledPages, allHtml, pageError, fetchCalls,
                 playwrightCalls>>
  /\ UNCHANGED nonCrawlVars

\* browser.newContext
NewContext ==
  /\ cwPc = "context"
  /\ \E ok \in BOOLEAN :
       IF ok THEN /\ cwPc' = "page"
                  /\ UNCHANGED <<pwReturned, result>>
             ELSE PlaywrightOuterCatch
  /\ UNCHANGED <<websiteUrl, simpleResult, crawledPages, allHtml, browserOpen,
                 pageError, fetchCalls, playwrightCalls>>
  /\ UNCHANGED nonCrawlVars

\* context.newPage
NewPage ==
  /\ cwPc = "page"
  /\ \E ok \in BOOLEAN :
       IF ok THEN /\ cwPc' = "goto"
                  /\ UNCHANGED <<pwReturned, result>>
             ELSE PlaywrightOuterCatch
  /\ UNCHANGED <<websiteUrl, simpleResult, crawledPages, allHtml, browserOpen,
                 pageError, fetchCalls, playwrightCalls>>
  /\ UNCHANGED nonCrawlVars

\* page.goto with timeout 15000; a failure goes to catch (pageError), then finally
Goto ==
  /\ cwPc = "goto"
  /\ \E ok \in BOOLEAN :
       IF ok THEN /\ cwPc' = "settle"
                  /\ UNCHANGED pageError
             ELSE /\ cwPc' = "close"
                  /\ pageError' = "goto"
  /\ UNCHANGED <<websiteUrl, simpleResult, crawledPages, allHtml, browserOpen,
                 fetchCalls, playwrightCalls, pwReturned, result>>
  /\ UNCHANGED nonCrawlVars

\* page.waitForTimeout(2000)
Settle ==
  /\ cwPc = "settle"
  /\ \E ok \in BOOLEAN :
       IF ok THEN /\ cwPc' = "content"
                  /\ UNCHANGED pageError
             ELSE /\ cwPc' = "close"
                  /\ pageError' = "waitForTimeout"
  /\ UNCHANGED <<websiteUrl, simpleResult, crawledPages, allHtml, browserOpen,
                 fetchCalls, playwrightCalls, pwReturned, result>>
  /\ UNCHANGED nonCrawlVars

\* page.content() and page.title(), then the page is recorded
Capture ==
  /\ cwPc = "content"
  /\ \/ \E html \in BrowserHtmls :
          /\ crawledPages' = << [url |-> StartUrl(websiteUrl), html |-> html] >>
          /\ allHtml' = html
          /\ UNCHANGED pageError
     \/ /\ pageError' = "content"
        /\ UNCHANGED <<crawledPages, allHtml>>
  /\ cwPc' = "close"
  /\ UNCHANGED <<websiteUrl, simpleResult, browserOpen, fetchCalls, playwrightCalls,
                 pwReturned, result>>
  /\ UNCHANGED nonCrawlVars

\* finally { await browser.close() }, then the return of crawlWithPlaywright
\* and of crawlWebsite
Close ==
  /\ cwPc = "close"
  /\ \E ok \in BOOLEAN :
       IF ok THEN /\ browserOpen' = FALSE
                  /\ pwReturned' = PlaywrightReturn(crawledPages, allHtml)
                  /\ result' = pwReturned'
                  /\ cwPc' = "done"
             ELSE /\ PlaywrightOuterCatch
                  /\ UNCHANGED browserOpen
  /\ UNCHANGED <<websiteUrl, simpleResult, crawledPages, allHtml, pageError, fetchCalls,
                 playwrightCalls>>
  /\ UNCHANGED nonCrawlVars

(***************************************************************************)
(* Crawl4AIClient: checkAvailability, runPythonCommand, crawlUrl           *)
(***************************************************************************)
\* a line of process output: whitespace only, text that is not JSON, the
\* JSON of a successful crawl, the JSON of a failed crawl, the JSON null,
\* or the token the availability probe prints
LineKinds == {"blank", "noise", "okJson", "errJson", "nullJson"}
ProbeLineKinds == {"blank", "noise", "OK"}

RECURSIVE TrimEnd(_)
TrimEnd(lines) ==
  IF lines = <<>> THEN <<>>
  ELSE IF lines[Len(lines)] = "blank" THEN TrimEnd(SubSeq(lines, 1, Len(lines) - 1))
  ELSE lines

RECURSIVE TrimStart(_)
TrimStart(lines) ==
  IF lines = <<>> THEN <<>>
  ELSE IF lines[1] = "blank" THEN TrimStart(Tail(lines))
  ELSE lines

\* output.trim(): leading and trailing white space, line ends included, goes
Trim(lines) == TrimStart(TrimEnd(lines))

\* const lines = output.trim().split('\n'); lines[lines.length - 1]
\* (the empty string splits into one empty line)
JsonLineFirst(output) ==
  LET t == Trim(output) IN IF t = <<>> THEN "blank" ELSE t[1]
JsonLine(output) ==
  LET t == Trim(output) IN IF t = <<>> THEN "blank" ELSE t[Len(t)]

\* JSON.parse(jsonLine) does not throw
Parses(line) == line \in {"okJson", "errJson", "nullJson"}

JsonNull == [jsonNull |-> TRUE]

\* JSON.parse(jsonLine)
JsonValue(line) ==
  CASE line = "okJson" -> [success |-> TRUE, content |-> "markdown"]
    [] line = "errJson" -> [success |-> FALSE, error |-> "crawl error"]
    [] OTHER -> JsonNull

\* new Error(message)
Error(message) == [message |-> message]

Pending == [state |-> "pending", value |-> Null]
Resolved(v) == [state |-> "resolved", value |-> v]
Rejected(e) == [state |-> "rejected", value |-> e]

\* exit codes of the python process; a process ended by a signal closes
\* with code null
ExitCodes == {0, 1}
SignalExit == -1

\* python.on('close', (code) => ...) of crawlUrl
CloseSettles(code, output) ==
  IF code = 0
    THEN IF Parses(JsonLine(output))
           THEN Resolved(JsonValue(JsonLine(output)))
           ELSE Rejected(Error("Failed to parse Python output"))
    ELSE Rejected(Error("Python script failed"))

\* resolve / reject of the promise crawlUrl awaits: only the first call counts
SettlePromiseAgain(promise, outcome) == outcome
SettlePromise(promise, outcome) ==
  IF promise.state = "pending" THEN outcome ELSE promise

\* python.kill(): SIGTERM ends a process that is still running
KillForgotten(proc) == proc
Kill(proc) == IF proc = "running" THEN "killed" ELSE proc

\* { success: false, error: error.message }
Failure(message) == [success |-> FALSE, error |-> message]

\* crawlUrl after the await: result.success is read, result is returned;
\* a rejection or a TypeError on a null result goes to the catch
CrawlUrlReturns(promise) ==
  IF promise.state = "resolved"
    THEN IF promise.value = JsonNull
           THEN Failure("Cannot read properties of null")
           ELSE promise.value
    ELSE Failure(promise.value.message)

IdleCrawl == [pc |-> "idle", proc |-> "none", output |-> <<>>, code |-> SignalExit,
              promise |-> Pending, timer |-> "none", ret |-> Null]

Crawls == 1..MaxCrawls

\* crawlUrl up to the await: spawn, handlers, stdin, setTimeout
CrawlUrlCall(k) ==
  /\ crawl[k].pc = "idle"
  /\ k > 1 => crawl[k - 1].pc # "idle"
  /\ crawl' = [crawl EXCEPT ![k] = [IdleCrawl EXCEPT !.pc = "awaiting",
                                                      !.proc = "running",
                                                      !.timer = "armed"]]
  /\ UNCHANGED <<available, probe>>
  /\ UNCHANGED nonClientVars

\* python.stdout.on('data', ...) of crawlUrl
StdoutData(k) ==
  /\ crawl[k].proc \in {"running", "killed"}
  /\ Len(crawl[k].output) < MaxLines
  /\ \E line \in LineKinds :
       crawl' = [crawl EXCEPT ![k].output = Append(@, line)]
  /\ UNCHANGED <<available, probe>>
  /\ UNCHANGED nonClientVars

\* the process ended and python.on('close', ...) ran
ProcessClose(k) ==
  /\ crawl[k].proc \in {"running", "killed"}
  /\ \E code \in (IF crawl[k].proc = "running" THEN ExitCodes ELSE {SignalExit}) :
       crawl' = [crawl EXCEPT ![k].proc = "exited",
                              ![k].code = code,
                              ![k].promise =
                                 SettlePromise(@, CloseSettles(code, crawl[k].output))]
  /\ UNCHANGED <<available, probe>>
  /\ UNCHANGED nonClientVars

\* the setTimeout callback: python.kill(); reject(new Error('Crawl timeout'))
TimerFires(k) ==
  /\ crawl[k].timer = "armed"
  /\ crawl' = [crawl EXCEPT ![k].timer = "fired",
                            ![k].proc = Kill(@),
                            ![k].promise =
                               SettlePromise(@, Rejected(Error("Crawl timeout")))]
  /\ UNCHANGED <<available, probe>>
  /\ UNCHANGED nonClientVars

\* the await is over: log, return result, or the catch
CrawlUrlReturn(k) ==
  /\ crawl[k].pc = "awaiting"
  /\ crawl[k].promise.state # "pending"
  /\ crawl' = [crawl EXCEPT ![k].pc = "returned",
                            ![k].ret = CrawlUrlReturns(crawl[k].promise)]
  /\ UNCHANGED <<available, probe>>
  /\ UNCHANGED nonClientVars

IdleProbe == [pc |-> "idle", output |-> <<>>, code |-> SignalExit]

Probes == 1..MaxProbes

\* result.trim() === 'OK' after a zero exit; a non-zero exit rejects and
\* the catch sets false
ProbeSaysAvailable(code, output) == code = 0 /\ Trim(output) = <<"OK">>

\* checkAvailability called: runPythonCommand spawns the probe
ProbeStart(j) ==
  /\ probe[j].pc = "idle"
  /\ j > 1 => probe[j - 1].pc = "done"
  /\ probe' = [probe EXCEPT ![j].pc = "running"]
  /\ UNCHANGED <<available, crawl>>
  /\ UNCHANGED nonClientVars

\* python.stdout.on('data', ...) of runPythonCommand
ProbeStdout(j) ==
  /\ probe[j].pc = "running"
  /\ Len(probe[j].output) < MaxLines
  /\ \E line \in ProbeLineKinds :
       probe' = [probe EXCEPT ![j].output = Append(@, line)]
  /\ UNCHANGED <<available, crawl>>
  /\ UNCHANGED nonClientVars

\* python.on('close', ...) of runPythonCommand, then checkAvailability
\* assigns this.available
ProbeClose(j) ==
  /\ probe[j].pc = "running"
  /\ \E code \in ExitCodes :
       /\ probe' = [probe EXCEPT ![j].pc = "done", ![j].code = code]
       /\ available' = ProbeSaysAvailable(code, probe[j].output)
  /\ UNCHANGED crawl
  /\ UNCHANGED nonClientVars

(***************************************************************************)
(* AI outreach generation: the loop of main.js and generateOutreach        *)
(***************************************************************************)
\* setTimeout(resolve, 1000) between two calls
GenerationSpacingMs == 1000

\* amounts by which the clock is seen to advance
ClockSteps == {500, 1000}

\* an outreach is which of its three texts are non-empty
EmptyOutreach == [coldEmail |-> FALSE, voicemail |-> FALSE, sms |-> FALSE]
Outreaches == [coldEmail : BOOLEAN, voicemail : BOOLEAN, sms : BOOLEAN]

\* what can happen inside the try of generateOutreach: buildPrompt throws,
\* fetch rejects, the status is not ok, response.json() or data.choices[0]
\* throws, or a content is parsed
CallFailures == {"prompt error", "network error", "http status", "bad json"}

\* catch (error) of generateOutreach
GenerateOutreachCatchRethrows == Raised
GenerateOutreachCatch == EmptyOutreach

\* the for loop has no break: it goes on whatever the call returned
ContinueOnlyAfterSuccess(outreach) == outreach # EmptyOutreach /\ outreach # Raised
ContinueAfter(outreach) == TRUE

Records == 1..numRecords

\* the loop body after generateOutreach settled with outreach o
AfterCall(o) ==
  /\ results' = Append(results, o)
  /\ aiCount' = IF o # Raised /\ (o.coldEmail \/ o.voicemail \/ o.sms)
                  THEN aiCount + 1 ELSE aiCount
  /\ IF ~ContinueAfter(o)
       THEN /\ genPc' = "done"
            /\ UNCHANGED <<genI, delayUntil>>
       ELSE IF o # Raised /\ genI < numRecords - 1
         THEN /\ genPc' = "delay"
              /\ delayUntil' = now + GenerationSpacingMs
              /\ UNCHANGED genI
         ELSE /\ genPc' = "loop"
              /\ genI' = genI + 1
              /\ UNCHANGED delayUntil

\* generateOutreach(lead, input) is called for mergedLeads[genI]; without
\* key it warns and returns at once, a throwing buildPrompt goes to its
\* catch, otherwise the request is sent
GenCall ==
  /\ genPc = "loop"
  /\ genI < numRecords
  /\ calls' = Append(calls, [record |-> genI + 1, at |-> now])
  /\ IF ~apiKey
       THEN /\ keyWarnings' = keyWarnings + 1
            /\ AfterCall(EmptyOutreach)
            /\ UNCHANGED httpCalls
       ELSE \/ /\ AfterCall(GenerateOutreachCatch)
               /\ UNCHANGED <<httpCalls, keyWarnings>>
            \/ /\ httpCalls' = httpCalls + 1
               /\ genPc' = "fetching"
               /\ UNCHANGED <<genI, delayUntil, results, aiCount, keyWarnings>>
  /\ UNCHANGED <<numRecords, apiKey, now>>
  /\ UNCHANGED nonGenVars

\* the request settled; generateOutreach returns to the loop
GenFetchReturn ==
  /\ genPc = "fetching"
  /\ \/ \E f \in CallFailures \ {"prompt error"} :
          AfterCall(IF f = "http status" THEN EmptyOutreach ELSE GenerateOutreachCatch)
     \/ \E o \in Outreaches : AfterCall(o)
  /\ UNCHANGED <<numRecords, apiKey, now, calls, httpCalls, keyWarnings>>
  /\ UNCHANGED nonGenVars

\* the 1000 ms timer fired
GenDelayElapsed ==
  /\ genPc = "delay"
  /\ now >= delayUntil
  /\ genPc' = "loop"
  /\ genI' = genI + 1
  /\ UNCHANGED <<numRecords, apiKey, now, delayUntil, calls, results, httpCalls,
                 keyWarnings, aiCount>>
  /\ UNCHANGED nonGenVars

\* i < mergedLeads.length is false
GenComplete ==
  /\ genPc = "loop"
  /\ genI >= numRecords
  /\ genPc' = "done"
  /\ UNCHANGED <<numRecords, apiKey, genI, now, delayUntil, calls, results, httpCalls,
                 keyWarnings, aiCount>>
  /\ UNCHANGED nonGenVars

\* time passes
Tick ==
  /\ genPc \in {"fetching", "delay"}
  /\ \E d \in ClockSteps :
       /\ now + d <= MaxTime
       /\ now' = now + d
  /\ UNCHANGED <<numRecords, apiKey, genPc, genI, delayUntil, calls, results, httpCalls,
                 keyWarnings, aiCount>>
  /\ UNCHANGED nonGenVars

(***************************************************************************)
(* The run: the top-level try / catch / finally of main.js                 *)
(***************************************************************************)
\* a lead as far as the summary and the output read it: it has a website,
\* it has at least one email, some social link is set, and its
\* websiteSignals are unset, all false, or some true
RawLeads == [website : BOOLEAN, emails : BOOLEAN, socials : {FALSE}, signals : {"unset"}]

\* the record after the unit task ran with outcome t, socials found s and
\* some feature flag of the crawl metadata true or not
MergedLead(lead, t, s, flag) ==
  [website |-> lead.website,
   emails |-> lead.emails \/ "emails" \in t.updated,
   socials |-> IF "socials" \in t.updated THEN s ELSE lead.socials,
   signals |-> IF "websiteSignals" \in t.updated
                 THEN (IF flag THEN "someTrue" ELSE "allFalse")
                 ELSE lead.signals]

\* cleanLeadForOutput: email and the three feature flags of the record
CleanLead(lead) ==
  [email |-> lead.emails,
   anyFeatureFlag |-> lead.signals = "someTrue"]

\* const enrichedCount = mergedLeads.filter(...).length
SummaryEnrichedCount(leads) ==
  Cardinality({ u \in 1..Len(leads) : leads[u].emails \/ leads[u].socials })

ZeroSummary == [totalFound |-> 0, totalAfterDedupe |-> 0, enrichedCount |-> 0,
                errors |-> <<"No leads found">>]
FinalSummary(found, leads, final) ==
  [totalFound |-> found, totalAfterDedupe |-> Len(leads),
   enrichedCount |-> SummaryEnrichedCount(leads),
   created |-> Len(final), skipped |-> Len(leads) - Len(final), errors |-> <<>>]

\* where the zero-leads branch goes after its summary: past the else block
ZeroLeadsFallsThrough == "dedupe"
ZeroLeadsNext == "finished"

\* an error reached catch (error): logged and rethrown
RunFails == runPc' = "failed"

\* Actor.getInput and validateInput
RunStart ==
  /\ runPc = "start"
  /\ \/ runPc' = "discovery"
     \/ RunFails
  /\ UNCHANGED <<enrichOn, rawCount, runLeads, runI, crawlsEmpty, crawlsContent, dataset,
                 summaryWrites, summary, runOutcome>>
  /\ UNCHANGED nonRunVars

\* the discovery loops; every adapter call has its own try / catch
RunDiscovery ==
  /\ runPc = "discovery"
  /\ \E n \in 0..MaxRunLeads : \E leads \in [1..n -> RawLeads] :
       /\ rawCount' = n
       /\ runLeads' = leads
       /\ runPc' = IF n = 0 THEN "zeroSummary" ELSE "dedupe"
  /\ UNCHANGED <<enrichOn, runI, crawlsEmpty, crawlsContent, dataset, summaryWrites,
                 summary, runOutcome>>
  /\ UNCHANGED nonRunVars

\* rawLeads.length === 0: Actor.setValue('RUN_SUMMARY', ...)
RunZeroSummary ==
  /\ runPc = "zeroSummary"
  /\ \/ /\ summaryWrites' = summaryWrites + 1
        /\ summary' = ZeroSummary
        /\ runPc' = ZeroLeadsNext
     \/ /\ RunFails
        /\ UNCHANGED <<summaryWrites, summary>>
  /\ UNCHANGED <<enrichOn, rawCount, runLeads, runI, crawlsEmpty, crawlsContent, dataset,
                 runOutcome>>
  /\ UNCHANGED nonRunVars

\* generateDedupeId, mergeLeads and the filters keep some of the leads
RunDedupe ==
  /\ runPc = "dedupe"
  /\ \/ \E m \in 0..Len(runLeads) :
          /\ runLeads' = SubSeq(runLeads, 1, m)
          /\ runPc' = "enrich"
     \/ /\ RunFails
        /\ UNCHANGED runLeads
  /\ UNCHANGED <<enrichOn, rawCount, runI, crawlsEmpty, crawlsContent, dataset,
                 summaryWrites, summary, runOutcome>>
  /\ UNCHANGED nonRunVars

\* the enrichment phase is done with one more lead: a lead without website
\* is not in leadsToEnrich, the others go through the unit task
RunEnrichLead ==
  /\ runPc = "enrich"
  /\ enrichOn
  /\ runI < Len(runLeads)
  /\ runI' = runI + 1
  /\ IF ~runLeads[runI + 1].website
       THEN UNCHANGED <<runLeads, crawlsEmpty, crawlsContent>>
       ELSE \E shape \in LeadShapes, hasContent \in BOOLEAN, extractThrows \in BOOLEAN,
               e \in BOOLEAN, p \in BOOLEAN, sf \in BOOLEAN, flag \in BOOLEAN :
              LET t == UnitTask(shape, hasContent, extractThrows, e, p, sf)
              IN /\ runLeads' = [runLeads EXCEPT
                                   ![runI + 1] = MergedLead(@, t, sf, flag)]
                 /\ crawlsEmpty' = IF hasContent THEN crawlsEmpty ELSE crawlsEmpty + 1
                 /\ crawlsContent' = IF hasContent THEN crawlsContent + 1 ELSE crawlsContent
  /\ UNCHANGED <<runPc, enrichOn, rawCount, dataset, summaryWrites, summary, runOutcome>>
  /\ UNCHANGED nonRunVars

\* the enrichment phase is over or was not configured
RunEnrichDone ==
  /\ runPc = "enrich"
  /\ ~enrichOn \/ runI = Len(runLeads)
  /\ runPc' = "score"
  /\ UNCHANGED <<enrichOn, rawCount, runLeads, runI, crawlsEmpty, crawlsContent, dataset,
                 summaryWrites, summary, runOutcome>>
  /\ UNCHANGED nonRunVars

\* the scoring and generation phases: scoreLead may throw, generation not
RunScoreGenerate ==
  /\ runPc = "score"
  /\ \/ runPc' = "push"
     \/ RunFails
  /\ UNCHANGED <<enrichOn, rawCount, runLeads, runI, crawlsEmpty, crawlsContent, dataset,
                 summaryWrites, summary, runOutcome>>
  /\ UNCHANGED nonRunVars

\* delta mode keeps the new or changed leads (all of them when it is off);
\* cleanLeadsForDataset and Actor.pushData
RunPush ==
  /\ runPc = "push"
  /\ \/ /\ \E k \in 0..Len(runLeads) :
             dataset' = [u \in 1..k |-> CleanLead(runLeads[u])]
        /\ runPc' = "summary"
     \/ /\ RunFails
        /\ UNCHANGED dataset
  /\ UNCHANGED <<enrichOn, rawCount, runLeads, runI, crawlsEmpty, crawlsContent,
                 summaryWrites, summary, runOutcome>>
  /\ UNCHANGED nonRunVars

\* the summary is assembled and Actor.setValue('RUN_SUMMARY', summary) called
RunSummary ==
  /\ runPc = "summary"
  /\ \/ /\ summaryWrites' = summaryWrites + 1
        /\ summary' = FinalSummary(rawCount, runLeads, dataset)
        /\ runPc' = "finished"
     \/ /\ RunFails
        /\ UNCHANGED <<summaryWrites, summary>>
  /\ UNCHANGED <<enrichOn, rawCount, runLeads, runI, crawlsEmpty, crawlsContent, dataset,
                 runOutcome>>
  /\ UNCHANGED nonRunVars

\* finally { await Actor.exit() }; after the catch the error is rethrown
RunExit ==
  /\ runPc \in {"finished", "failed"}
  /\ runOutcome' = IF runPc = "failed" THEN "error" ELSE "ok"
  /\ runPc' = "exited"
  /\ UNCHANGED <<enrichOn, rawCount, runLeads, runI, crawlsEmpty, crawlsContent, dataset,
                 summaryWrites, summary>>
  /\ UNCHANGED nonRunVars

(***************************************************************************)
(* simpleFetch: simpleFetch.js and the fallback of crawl4aiClient.js        *)
(***************************************************************************)
SimpleFetchImpls == {"simpleFetch.js", "crawl4aiClient.js"}

\* clearTimeout(timeoutId) once fetch() has resolved; the fallback's
\* AbortSignal.timeout(timeout) is never cleared
AfterHeaders(impl, timer) == IF impl = "simpleFetch.js" THEN "cleared" ELSE timer

\* catch (error) { return { success: false, error: error.message } }
SimpleFetchCatchRethrows(reason) == Raised
SimpleFetchCatch(reason) == FetchFailure(reason)

\* the fallback also returns the url
FallbackSuccess(h) ==
  [success |-> TRUE, url |-> "https://example.com", html |-> Markup(h), text |-> StripTags(h)]
SimpleFetchSuccess(impl, h) ==
  IF impl = "simpleFetch.js" THEN FetchSuccess(h) ELSE FallbackSuccess(h)

\* new AbortController, setTimeout(() => controller.abort(), timeout), fetch(url, ...)
SfCall ==
  /\ sfPc = "idle"
  /\ sfTimer' = "armed"
  /\ sfRequests' = sfRequests + 1
  /\ sfPc' = "headers"
  /\ UNCHANGED <<sfImpl, sfAborted, sfEvent, sfBody, sfResult>>
  /\ UNCHANGED nonSfVars

\* await fetch(...) settles: a response with its status, or a network error
SfResponse ==
  /\ sfPc = "headers"
  /\ \E ev \in {"ok", "http status", "network"} :
       /\ sfEvent' = ev
       /\ CASE ev = "ok" ->
                 /\ sfTimer' = AfterHeaders(sfImpl, sfTimer)
                 /\ sfPc' = "body"
                 /\ UNCHANGED sfResult
            [] ev = "http status" ->
                 /\ sfTimer' = AfterHeaders(sfImpl, sfTimer)
                 /\ sfResult' = IF sfImpl = "simpleFetch.js"
                                  THEN FetchFailure("http status")
                                  ELSE SimpleFetchCatch("http status")
                 /\ sfPc' = "returned"
            [] ev = "network" ->
                 /\ sfResult' = SimpleFetchCatch("network")
                 /\ sfPc' = "returned"
                 /\ UNCHANGED sfTimer
  /\ UNCHANGED <<sfImpl, sfRequests, sfAborted, sfBody>>
  /\ UNCHANGED nonSfVars

\* await response.text() settles: the whole body, or an error while reading
SfBodyRead ==
  /\ sfPc = "body"
  /\ \/ \E h \in { x \in Htmls : WellFormedHtml(x) } :
          /\ sfBody' = h
          /\ sfResult' = SimpleFetchSuccess(sfImpl, h)
          /\ UNCHANGED sfEvent
     \/ /\ sfEvent' = "network"
        /\ sfResult' = SimpleFetchCatch("network")
        /\ UNCHANGED sfBody
  /\ sfPc' = "returned"
  /\ UNCHANGED <<sfImpl, sfTimer, sfRequests, sfAborted>>
  /\ UNCHANGED nonSfVars

\* the timeout fires: the signal aborts the request that is still under way,
\* the pending await rejects and the catch returns
SfTimerFires ==
  /\ sfTimer = "armed"
  /\ sfTimer' = "fired"
  /\ IF sfPc \in {"headers", "body"}
       THEN /\ sfAborted' = TRUE
            /\ sfEvent' = "timeout"
            /\ sfResult' = SimpleFetchCatch("timeout")
            /\ sfPc' = "returned"
       ELSE UNCHANGED <<sfAborted, sfEvent, sfResult, sfPc>>
  /\ UNCHANGED <<sfImpl, sfRequests, sfBody>>
  /\ UNCHANGED nonSfVars

(***************************************************************************)
(* parseOutreachResponse                                                   *)
(***************************************************************************)
\* the labeled sections in the order the prompt asks for them
Sections == <<"COLD_EMAIL_SUBJECT", "COLD_EMAIL_BODY", "VOICEMAIL", "SMS">>

\* a content is, per section, whether its marker line and text are there
\* and whether a blank line (\n\n) follows the text
Contents ==
  { c \in [present : [1..4 -> BOOLEAN], blankAfter : [1..4 -> BOOLEAN]] :
      \A k \in 1..4 : c.blankAfter[k] => c.present[k] }

\* /MARKER:\s*\n(.+?)(?=\n\n|NEXT:)/s matches: the marker is there and,
\* after some text, a blank line or the next marker comes somewhere
MarkerMatch(c, k) ==
  /\ c.present[k]
  /\ \/ \E j \in k..4 : c.blankAfter[j]
     \/ c.present[k + 1]

\* /SMS:\s*\n(.+?)$/s
SmsMatch(c) == c.present[4]

parseOutreachResponse(c) ==
  [coldEmail |-> MarkerMatch(c, 1) /\ MarkerMatch(c, 2),
   voicemail |-> MarkerMatch(c, 3),
   sms |-> SmsMatch(c)]

ParseCall ==
  /\ poOutreach = Null
  /\ poOutreach' = parseOutreachResponse(poContent)
  /\ UNCHANGED poContent
  /\ UNCHANGED nonParseVars

(***************************************************************************)
(* Specifications                                                          *)
(***************************************************************************)
CrawlIdle ==
  /\ cwPc = "idle"
  /\ websiteUrl = ""
  /\ simpleResult = Null
  /\ crawledPages = <<>>
  /\ allHtml = EmptyStr
  /\ browserOpen = FALSE
  /\ pageError = "none"
  /\ fetchCalls = 0
  /\ playwrightCalls = 0
  /\ pwReturned = Null
  /\ result = Null

\* constructor(): this.available = false; nothing has been called
ClientIdle ==
  /\ available = FALSE
  /\ probe = [j \in Probes |-> IdleProbe]
  /\ crawl = [k \in Crawls |-> IdleCrawl]

ParseIdle ==
  /\ poContent = Null
  /\ poOutreach = Null

SfIdle ==
  /\ sfImpl = "simpleFetch.js"
  /\ sfPc = "idle"
  /\ sfTimer = "none"
  /\ sfRequests = 0
  /\ sfAborted = FALSE
  /\ sfEvent = "none"
  /\ sfBody = Null
  /\ sfResult = Null

RunIdle ==
  /\ runPc = "idle"
  /\ enrichOn = FALSE
  /\ rawCount = 0
  /\ runLeads = <<>>
  /\ runI = 0
  /\ crawlsEmpty = 0
  /\ crawlsContent = 0
  /\ dataset = <<>>
  /\ summaryWrites = 0
  /\ summary = Null
  /\ runOutcome = "none"

GenIdle ==
  /\ numRecords = 0
  /\ apiKey = FALSE
  /\ genPc = "idle"
  /\ genI = 0
  /\ now = 0
  /\ delayUntil = 0
  /\ calls = <<>>
  /\ results = <<>>
  /\ httpCalls = 0
  /\ keyWarnings = 0
  /\ aiCount = 0

EnrichIdle ==
  /\ numLeads = 0
  /\ i = 0
  /\ ctrl = "idle"
  /\ unit = [u \in {} |-> PendingUnit]
  /\ enrichedCount = 0
  /\ sinceSettled = 0

\* the enrichment phase over 0..MaxLeads leads that have a website
Init ==
  /\ numLeads \in 0..MaxLeads
  /\ i = 0
  /\ ctrl = "loop"
  /\ unit = [u \in 1..numLeads |-> PendingUnit]
  /\ enrichedCount = 0
  /\ sinceSettled = 0
  /\ CrawlIdle
  /\ ClientIdle
  /\ GenIdle
  /\ RunIdle
  /\ SfIdle
  /\ ParseIdle

Next ==
  \/ StartBatch
  \/ \E u \in Leads : UnitFinish(u)
  \/ BatchSettled
  \/ DelayElapsed
  \/ PaceTick
  \/ EnrichmentComplete

Spec == Init /\ [][Next]_vars

\* one call of crawlWebsite
CrawlInit ==
  /\ cwPc = "start"
  /\ websiteUrl \in Urls
  /\ simpleResult = Null
  /\ crawledPages = <<>>
  /\ allHtml = EmptyStr
  /\ browserOpen = FALSE
  /\ pageError = "none"
  /\ fetchCalls = 0
  /\ playwrightCalls = 0
  /\ pwReturned = Null
  /\ result = Null
  /\ EnrichIdle
  /\ ClientIdle
  /\ GenIdle
  /\ RunIdle
  /\ SfIdle
  /\ ParseIdle

CrawlNext ==
  \/ CrawlStart
  \/ FetchReturn
  \/ Launch
  \/ NewContext
  \/ NewPage
  \/ Goto
  \/ Settle
  \/ Capture
  \/ Close

CrawlSpec == CrawlInit /\ [][CrawlNext]_vars

\* calls of crawlUrl on one client
ClientInit ==
  /\ ClientIdle
  /\ EnrichIdle
  /\ CrawlIdle
  /\ GenIdle
  /\ RunIdle
  /\ SfIdle
  /\ ParseIdle

ClientNext ==
  \/ \E k \in Crawls : CrawlUrlCall(k)
  \/ \E k \in Crawls : StdoutData(k)
  \/ \E k \in Crawls : ProcessClose(k)
  \/ \E k \in Crawls : TimerFires(k)
  \/ \E k \in Crawls : CrawlUrlReturn(k)

ClientSpec == ClientInit /\ [][ClientNext]_vars

\* calls of checkAvailability on one client
ProbeNext ==
  \/ \E j \in Probes : ProbeStart(j)
  \/ \E j \in Probes : ProbeStdout(j)
  \/ \E j \in Probes : ProbeClose(j)

ProbeSpec == ClientInit /\ [][ProbeNext]_vars

\* the generation stage over 0..MaxRecords records, with or without key
GenInit ==
  /\ numRecords \in 0..MaxRecords
  /\ apiKey \in BOOLEAN
  /\ genPc = "loop"
  /\ genI = 0
  /\ now = 0
  /\ delayUntil = 0
  /\ calls = <<>>
  /\ results = <<>>
  /\ httpCalls = 0
  /\ keyWarnings = 0
  /\ aiCount = 0
  /\ EnrichIdle
  /\ CrawlIdle
  /\ ClientIdle
  /\ RunIdle
  /\ SfIdle
  /\ ParseIdle

GenNext ==
  \/ GenCall
  \/ GenFetchReturn
  \/ GenDelayElapsed
  \/ GenComplete
  \/ Tick

GenSpec == GenInit /\ [][GenNext]_vars

\* one run of the actor, with or without the enrichment phase
RunInit ==
  /\ runPc = "start"
  /\ enrichOn \in BOOLEAN
  /\ rawCount = 0
  /\ runLeads = <<>>
  /\ runI = 0
  /\ crawlsEmpty = 0
  /\ crawlsContent = 0
  /\ dataset = <<>>
  /\ summaryWrites = 0
  /\ summary = Null
  /\ runOutcome = "none"
  /\ EnrichIdle
  /\ CrawlIdle
  /\ ClientIdle
  /\ GenIdle
  /\ SfIdle
  /\ ParseIdle

RunNext ==
  \/ RunStart
  \/ RunDiscovery
  \/ RunZeroSummary
  \/ RunDedupe
  \/ RunEnrichLead
  \/ RunEnrichDone
  \/ RunScoreGenerate
  \/ RunPush
  \/ RunSummary
  \/ RunExit

RunSpec == RunInit /\ [][RunNext]_vars

\* one invocation of either simpleFetch
SfInit ==
  /\ sfImpl \in SimpleFetchImpls
  /\ sfPc = "idle"
  /\ sfTimer = "none"
  /\ sfRequests = 0
  /\ sfAborted = FALSE
  /\ sfEvent = "none"
  /\ sfBody = Null
  /\ sfResult = Null
  /\ EnrichIdle
  /\ CrawlIdle
  /\ ClientIdle
  /\ GenIdle
  /\ RunIdle
  /\ ParseIdle

SfNext ==
  \/ SfCall
  \/ SfResponse
  \/ SfBodyRead
  \/ SfTimerFires

SfSpec == SfInit /\ [][SfNext]_vars

\* parseOutreachResponse applied to any content
ParseInit ==
  /\ poContent \in Contents
  /\ poOutreach = Null
  /\ EnrichIdle
  /\ CrawlIdle
  /\ ClientIdle
  /\ GenIdle
  /\ RunIdle
  /\ SfIdle

ParseNext == ParseCall

ParseSpec == ParseInit /\ [][ParseNext]_vars

(***************************************************************************)
(* Properties                                                              *)
(***************************************************************************)
Active == { u \in Leads : unit[u].pc = "crawling" }

\* C1: with parallelism bound 2, the number of enrichment units that have
\* started and not yet finished is never greater than 2.
C1_AtMostTwoActive == Cardinality(Active) <= 2

C1_Witness == Cardinality(Active) = 2 /\ numLeads = 3

\* C2: a unit that fails is caught inside the unit: the phase is never
\* aborted, no unit's promise is rejected, every sibling that is still
\* running can still finish, and when the loop ends every unit of every
\* batch has completed.
C2_FailureContained ==
  (\E u \in Leads : unit[u].failed) =>
    /\ ctrl # "aborted"
    /\ \A v \in Leads : unit[v].pc # "rejected"
    /\ \A v \in Leads : unit[v].pc = "crawling" => ENABLED UnitFinish(v)
    /\ ctrl = "done" => \A v \in Leads : unit[v].pc = "done"

C2_Witness ==
  /\ numLeads = 3
  /\ ctrl = "done"
  /\ unit[2].failed
  /\ unit[1].pc = "done" /\ ~unit[1].failed
  /\ unit[3].pc = "done" /\ ~unit[3].failed

\* C3: batches run strictly in sequence: a unit of a later batch has
\* started only if every unit of every earlier batch has finished.
C3_BatchesInSequence ==
  \A u \in Leads, v \in Leads :
    BatchOf(u) < BatchOf(v) /\ unit[v].pc # "pending" => unit[u].pc \in {"done"}

C3_Witness ==
  /\ numLeads = 3
  /\ unit[3].pc = "crawling"
  /\ unit[1].pc = "done" /\ unit[2].pc = "done"
  /\ unit[1].failed

\* C4: every finished unit has either merged every signal of its
\* acquisition result into its record or left the record unmodified.
C4_MergedOrUnmodified ==
  \A u \in Leads :
    unit[u].pc = "done" => unit[u].updated = NoFields \/ unit[u].updated = unit[u].wanted

DirectFetched == simpleResult # Null
DirectSucceeded == DirectFetched /\ simpleResult.success
HasBlockMarker(html) == html.toks \cap BlockMarkers # {}

\* C5: tier-skip: a successful direct fetch of at least 5000 characters
\* without block marker is returned as a one-page result built from the
\* direct fetch content, and the browser tier is never invoked.
C5_TierSkip ==
  (DirectSucceeded /\ simpleResult.html.len >= 5000 /\ ~HasBlockMarker(simpleResult.html)) =>
    /\ cwPc = "done"
    /\ playwrightCalls = 0
    /\ ~browserOpen
    /\ Len(result.pages) = 1
    /\ result.pages[1].html = simpleResult.html
    /\ result.htmlContent = simpleResult.text

C5_Witness ==
  /\ DirectSucceeded
  /\ simpleResult.html.len = 5000
  /\ ~HasBlockMarker(simpleResult.html)
  /\ cwPc = "done"

\* C6: when the direct fetch fails, the browser tier is invoked exactly
\* once and crawlWebsite returns exactly what the browser tier returned:
\* the captured page when one was captured and the browser closed.
C6_FailedFetchEscalatesOnce ==
  (DirectFetched /\ ~simpleResult.success) =>
    /\ playwrightCalls = 1
    /\ fetchCalls = 1
    /\ cwPc = "done" =>
         /\ result = pwReturned
         /\ (~browserOpen /\ Len(crawledPages) > 0) =>
              /\ result.pages = crawledPages
              /\ result.htmlContent = allHtml

C6_Witness ==
  /\ DirectFetched /\ ~simpleResult.success
  /\ simpleResult.error = "timeout"
  /\ cwPc = "done"
  /\ Len(result.pages) = 1

\* C7: direct-fetch content shorter than 1000 is never accepted as the
\* direct tier's result: the browser tier is invoked and its result returned.
C7_ShortContentEscalates ==
  (DirectSucceeded /\ simpleResult.html.len < 1000) =>
    /\ playwrightCalls = 1
    /\ cwPc # "done" => result = Null
    /\ cwPc = "done" => result = pwReturned

C7_Witness ==
  /\ DirectSucceeded
  /\ simpleResult.html.len = 999
  /\ ~HasBlockMarker(simpleResult.html)
  /\ cwPc = "launch"

\* C8: direct-fetch content that contains a block marker is blocked
\* whatever its length: it is never returned as the direct tier's result
\* and the browser tier is invoked.
C8_MarkedContentEscalates ==
  (DirectSucceeded /\ HasBlockMarker(simpleResult.html)) =>
    /\ playwrightCalls = 1
    /\ cwPc # "done" => result = Null
    /\ cwPc = "done" => result = pwReturned

C8_Witness ==
  /\ DirectSucceeded
  /\ simpleResult.html.len = 8000
  /\ "Cloudflare" \in simpleResult.html.toks
  /\ cwPc = "done"
  /\ playwrightCalls = 1

\* the scenario of C9: a 3000-character page with "Access Denied", then a
\* navigation timeout in the browser tier
DeniedThenNavigationTimeout ==
  /\ cwPc = "done"
  /\ DirectSucceeded
  /\ simpleResult.html.len = 3000
  /\ "Access Denied" \in simpleResult.html.toks
  /\ pageError = "goto"

FlagNames == {"hasContactForm", "hasBookingWidget", "hasChatWidget"}

C10_ContactFormFromMarkup ==
  ( /\ DirectSucceeded
    /\ simpleResult.html.len >= 5000
    /\ ~HasBlockMarker(simpleResult.html)
    /\ "contact" \in simpleResult.html.toks
    /\ "submit" \in simpleResult.html.toks
    /\ ~("book" \in simpleResult.html.toks
          /\ ("appointment" \in simpleResult.html.toks
               \/ "schedule" \in simpleResult.html.toks)) ) =>
    /\ cwPc = "done"
    /\ playwrightCalls = 0
    /\ result.metadata.hasContactForm = TRUE
    /\ result.metadata.hasBookingWidget = FALSE

\* C11: crawlWebsite never raises: whatever the input and whichever tier
\* failed, it returns an object with a page list, a metadata map and a
\* content string.
C11_NeverRaises ==
  /\ result # Raised
  /\ cwPc = "done" =>
       /\ result # Null
       /\ {"pages", "metadata", "htmlContent"} \subseteq DOMAIN result
       /\ Len(result.pages) >= 0
       /\ result.htmlContent.len >= 0

C11_Witness ==
  /\ cwPc = "done"
  /\ websiteUrl = "bad host"
  /\ fetchCalls = 0
  /\ result = EmptyResult

\* C12: the browser tier never returns while a browser it launched is
\* still open.
C12_BrowserClosedOnReturn == cwPc = "done" => ~browserOpen

TimedOut(k) == crawl[k].promise = Rejected(Error("Crawl timeout"))

ClosedFirst(k) == crawl[k].pc = "returned" /\ ~TimedOut(k)

\* C14: the response is the last line of the output parsed as JSON,
\* whatever the earlier lines are; an output without parseable last line
\* and a non-zero exit yield a failure outcome with success = false.
C14_LastLineIsResponse ==
  \A k \in Crawls :
    ClosedFirst(k) =>
      LET out == crawl[k].output
          last == IF Trim(out) = <<>> THEN "blank" ELSE Trim(out)[Len(Trim(out))]
      IN /\ (crawl[k].code = 0 /\ last = "okJson") =>
              crawl[k].ret = [success |-> TRUE, content |-> "markdown"]
         /\ (crawl[k].code = 0 /\ last = "errJson") =>
              crawl[k].ret = [success |-> FALSE, error |-> "crawl error"]
         /\ (crawl[k].code # 0 \/ last \in {"blank", "noise"}) =>
              /\ crawl[k].ret.success = FALSE
              /\ "error" \in DOMAIN crawl[k].ret
              /\ crawl[k].ret.error \in {"Failed to parse Python output",
                                          "Python script failed"}

C14_Witness ==
  \E k \in Crawls :
    /\ ClosedFirst(k)
    /\ crawl[k].code = 0
    /\ crawl[k].output = <<"errJson", "okJson">>
    /\ crawl[k].ret.success = TRUE

ProbeFailed(j) ==
  probe[j].pc = "done" /\ ~ProbeSaysAvailable(probe[j].code, probe[j].output)

\* C15: once a probe has ended with a non-zero exit or unexpected output,
\* the crawler stays unavailable: no further probe runs and the available
\* flag is never true afterwards.
C15_UnavailableForGood ==
  \A j \in Probes :
    ProbeFailed(j) =>
      /\ ~available
      /\ \A n \in Probes : n > j => probe[n].pc = "idle"

FailedCall(r) == r <= Len(results) /\ results[r] = EmptyOutreach

\* C16: the call for record r+1 is issued at least 1000 ms after the call
\* for record r, also when the call for record r failed.
C16_CallsSpaced ==
  \A r \in 1..(Len(calls) - 1) : calls[r + 1].at >= calls[r].at + 1000

C16_Witness ==
  /\ Len(calls) = 3
  /\ apiKey
  /\ FailedCall(2)
  /\ ~FailedCall(1)
  /\ calls[2].at = calls[1].at + 1000
  /\ calls[3].at = calls[2].at + 1000

\* C17: the generation stage is sequential in record order: the r-th call
\* is the call for record r, a call is issued only when every earlier call
\* has returned, at most one request is in flight, and at the end every
\* record has had exactly one call, also after failed calls.
C17_SequentialInOrder ==
  /\ \A r \in 1..Len(calls) : calls[r].record = r
  /\ Len(calls) - Len(results) \in {0, 1}
  /\ Len(calls) - Len(results) = 1 <=> genPc = "fetching"
  /\ httpCalls <= Len(calls)
  /\ \A r \in 1..Len(results) : results[r] \in Outreaches
  /\ genPc = "done" => /\ Len(calls) = numRecords
                       /\ Len(results) = numRecords

C17_Witness ==
  /\ genPc = "done"
  /\ numRecords = 3
  /\ apiKey
  /\ FailedCall(1)
  /\ ~FailedCall(2)
  /\ ~FailedCall(3)

\* C18: without credentials the generation is short-circuited for the
\* whole run: the missing key is logged once per run, not once per record,
\* and no request is sent.
C18_MissingKeyLoggedOnce ==
  (~apiKey /\ genPc = "done" /\ numRecords >= 1) =>
    /\ keyWarnings = 1
    /\ httpCalls = 0

\* C19: a run in which every acquisition returned no content still ends
\* normally, the pushed records have every feature flag false, and the
\* summary reports an enriched count of zero.
C19_NoSignalRunReportsZero ==
  (enrichOn /\ crawlsContent = 0 /\ crawlsEmpty >= 1 /\ runPc = "finished") =>
    /\ summaryWrites = 1
    /\ \A u \in 1..Len(dataset) : ~dataset[u].anyFeatureFlag
    /\ summary.enrichedCount = 0

\* C20: RUN_SUMMARY is written exactly once on every run that ends without
\* fatal error, on the zero-leads path and on the normal path, as the last
\* step of the run, and never a second time.
C20_SummaryWrittenOnce ==
  /\ summaryWrites <= 1
  /\ summaryWrites = 1 => runPc \in {"finished", "exited"}
  /\ (runPc = "finished" \/ (runPc = "exited" /\ runOutcome = "ok")) =>
       /\ summaryWrites = 1
       /\ summary = IF rawCount = 0 THEN ZeroSummary ELSE FinalSummary(rawCount, runLeads, dataset)

C20_Witness ==
  /\ runPc = "exited"
  /\ runOutcome = "ok"
  /\ rawCount = 0
  /\ summaryWrites = 1
  /\ summary.errors = <<"No leads found">>

\* C21: when an error reaches the top-level catch, the run ends with the
\* error surfaced and only after a run summary, however partial, was written.
C21_FatalRunFlushesSummary ==
  (runPc = "exited" /\ runOutcome = "error") => summaryWrites >= 1

\* C22: simpleFetch sends exactly one request per invocation and never
\* raises: a non-success status, a timeout or a network error gives
\* success = false with a reason, a success gives the markup and its
\* tag-stripped text.
C22_OneRequestNeverRaises ==
  /\ sfRequests <= 1
  /\ sfPc = "returned" =>
       /\ sfRequests = 1
       /\ sfResult # Raised
       /\ sfEvent \in {"http status", "timeout", "network"} =>
            /\ sfResult.success = FALSE
            /\ sfResult.error = sfEvent
       /\ sfEvent = "ok" =>
            /\ sfResult.success = TRUE
            /\ sfResult.html = Markup(sfBody)
            /\ sfResult.text = StripTags(sfBody)

C22_Witness ==
  /\ sfPc = "returned"
  /\ sfEvent = "timeout"
  /\ sfAborted
  /\ sfRequests = 1
  /\ sfResult = FetchFailure("timeout")

\* C23: the timeout of simpleFetch (simpleFetch.js) covers the whole
\* retrieval: while the request awaits the headers or the body the timeout
\* is armed, so a stalled endpoint is aborted and a failure returned.
C23_TimeoutCoversRetrieval ==
  (sfImpl = "simpleFetch.js" /\ sfPc \in {"headers", "body"}) => sfTimer = "armed"

\* C24: the progress counters of the enrichment phase (loop index and
\* enriched count) are updated by the controller alone: a step in which a
\* unit task runs leaves them unchanged, and a unit task's step touches no
\* record but its own.
C24_CountersOwnedByController ==
  [][ (\E u \in Leads : unit[u].pc = "crawling" /\ unit'[u].pc # "crawling") =>
        /\ enrichedCount' = enrichedCount
        /\ i' = i
        /\ Cardinality({ u \in Leads : unit'[u] # unit[u] }) = 1 ]_vars

\* C25: crawlWebsite attempts at most two tiers per target, each at most
\* once and in order: the direct fetch first, the browser tier only after
\* the direct result was failed, insufficient or blocked; the external
\* crawler (Crawl4AIClient) is not invoked.
C25_AtMostTwoTiersInOrder ==
  /\ fetchCalls <= 1
  /\ playwrightCalls <= 1
  /\ playwrightCalls = 1 =>
       /\ fetchCalls = 1
       /\ DirectFetched
       /\ \/ ~simpleResult.success
          \/ simpleResult.html.len <= 1000
          \/ HasBlockMarker(simpleResult.html)
          \/ simpleResult.html.len < 5000
  /\ \A k \in Crawls : crawl[k] = IdleCrawl
  /\ \A j \in Probes : probe[j] = IdleProbe

C25_Witness ==
  /\ fetchCalls = 1
  /\ playwrightCalls = 1
  /\ DirectSucceeded
  /\ simpleResult.html.len = 3000
  /\ ~HasBlockMarker(simpleResult.html)
  /\ cwPc = "done"
  /\ ~browserOpen
  /\ Len(result.pages) = 1

\* C26: between the completion of a batch and the start of the next one
\* the 500 ms pacing delay has elapsed, for every pair of consecutive
\* batches, and no delay is waited for after the last batch.
C26_PacedBetweenBatches ==
  /\ (ctrl = "loop" /\ 0 < i /\ i < numLeads) => sinceSettled >= PacingDelayMs
  /\ ctrl = "delay" => i + batchSize < numLeads
  /\ (ctrl \in {"loop", "done"} /\ i >= numLeads) => sinceSettled = 0

C26_Witness ==
  /\ numLeads = 3
  /\ ctrl = "loop"
  /\ i = 2
  /\ sinceSettled = 750

\* which field of the outreach carries section k
SectionReturned(o, k) ==
  CASE k \in {1, 2} -> o.coldEmail
    [] k = 3 -> o.voicemail
    [] k = 4 -> o.sms

\* C27: the four sections are parsed independently: a section whose marker
\* is missing comes back empty, and every section whose marker is present
\* comes back non-empty whatever other marker is missing.
C27_SectionsIndependent ==
  poOutreach # Null =>
    \A k \in 1..4 : SectionReturned(poOutreach, k) = poContent.present[k]

NormalClose(k) == crawl[k].proc = "exited" /\ crawl[k].code \in ExitCodes

====
